---- MODULE Spec2Model ----
(***************************************************************************)
(* Model of the Panchang and Bengali solar calendar library.               *)
(*                                                                         *)
(*   SolarCalendar.get_bengali_date   (indian_vedic_jyotish/solar.py)      *)
(*   Panchang                         (bengali_jyotish/panchang.py)        *)
(*   Ephemeris                        (core.py), the position oracle       *)
(*                                                                         *)
(* Time.  An instant is a pair <<m, s>>: m whole minutes since the epoch   *)
(* (2024-01-01 00:00 UTC) and s ticks inside the minute, a tick being      *)
(* 2^-14 minute.  A Julian Day handled by get_bengali_date is kept as its  *)
(* offset in ticks from the query's Julian Day jd: the brackets            *)
(* [jd-32, jd] and [jd-65, jd-15] and every one of their 20 midpoints are  *)
(* whole numbers of ticks, so the bisection is modelled exactly.           *)
(*                                                                         *)
(* Longitude.  The Sun's longitude is 30*k + 30*e/L degrees, k the sign it *)
(* is in, e the time since it entered the sign and L the length of the     *)
(* solar month.  It is kept as [deg |-> 30*k, part |-> e]; every threshold *)
(* the calendar code compares it with (0, 180, -180) is a multiple of 30,  *)
(* so the comparisons on this form are exact.                              *)
(***************************************************************************)
EXTENDS Integers, Sequences, FiniteSets, TLC

VARIABLES
    eph,             \* the oracle: the ephemeris the process reads (never written)
    \* SolarCalendar.get_bengali_date
    dt,              \* the query moment, UTC minutes since the epoch
    pc,              \* position in the function ("idle": not called)
    month_index,     \* month_index
    sign_start_deg,  \* sign_start_deg
    lower,           \* lower (ticks relative to jd)
    upper,           \* upper (ticks relative to jd)
    iter,            \* iterations done of the running for-loop
    current_date,    \* current_date (IST day number)
    day_of_month,    \* day_of_month
    bangabda,        \* bangabda
    fallbacks,       \* history: times the day_of_month <= 0 branch was entered
    bisections,      \* history: bisection iterations run for this query
    \* Panchang
    ppc,             \* position in Panchang.__init__
    self_dt,         \* self.dt, UTC minutes since the epoch
    sun_long,        \* self.sun_long
    moon_long,       \* self.moon_long
    tithi,           \* self.tithi_index, self.tithi_name, self.tithi_end
    nakshatra,       \* self.nakshatra_index, self.nakshatra_name, self.nakshatra_end
    yoga,            \* self.yoga_index, self.yoga_name, self.yoga_end
    karana,          \* karana_idx and self.karana_name
    search,          \* _calculate_end_time: its dt and the iterations done of its for-loop
    sunrise,         \* self.sunrise
    sunset,          \* self.sunset
    timings,         \* self.timings
    bengali,         \* self.bengali_date, self.bengali_month, self.bengali_year
    \* two evaluations of Ephemeris.get_sunrise_sunset running concurrently
    topo,            \* the observer position swe.set_topo last stored (process-wide)
    observer,        \* per evaluation: its own (lat, lon)
    tpc,             \* per evaluation: position in get_sunrise_sunset
    calls,           \* per evaluation: get_sun_alt calls made in the running find_event
    seen,            \* per evaluation: the observer positions its calc_ut calls ran under
    \* a caller sweeping get_bengali_date over dates
    last             \* history: the query and the result of the call before this one

civilVars == <<dt, pc, month_index, sign_start_deg, lower, upper, iter,
               current_date, day_of_month, bangabda, fallbacks, bisections>>

panchangVars == <<ppc, self_dt, sun_long, moon_long, tithi, nakshatra, yoga, karana,
                  search, sunrise, sunset, timings, bengali>>

parallelVars == <<topo, observer, tpc, calls, seen>>

sweepVars == <<last>>

vars == <<eph, civilVars, panchangVars, parallelVars, sweepVars>>

\* Python's None, and a value that is there.
None    == << >>
Some(v) == <<v>>

-----------------------------------------------------------------------------
(* Units *)

TicksPerMinute == 2 ^ 14
MinutesPerDay  == 24 * 60
TicksPerDay    == MinutesPerDay * TicksPerMinute
IstOffset      == 5 * 60 + 30       \* Asia/Kolkata, UTC+5:30, minutes

Epoch == [year |-> 2024, month |-> 1, day |-> 1]

-----------------------------------------------------------------------------
(* datetime.date *)

IsLeap(y) == (y % 4 = 0 /\ y % 100 # 0) \/ y % 400 = 0

DaysInMonth(y, m) ==
    IF m = 2 THEN (IF IsLeap(y) THEN 29 ELSE 28)
    ELSE IF m \in {4, 6, 9, 11} THEN 30 ELSE 31

RECURSIVE GregFrom(_, _, _)
GregFrom(y, m, n) ==
    IF n < DaysInMonth(y, m)
    THEN [year |-> y, month |-> m, day |-> n + 1]
    ELSE IF m = 12 THEN GregFrom(y + 1, 1, n - DaysInMonth(y, m))
         ELSE GregFrom(y, m + 1, n - DaysInMonth(y, m))

\* The Gregorian date of day number n (0 = the epoch's date).
GregorianDate(n) == GregFrom(Epoch.year, Epoch.month, n)

RECURSIVE DaysBefore(_, _)
DaysBefore(y, m) == IF m = 1 THEN 0 ELSE DaysBefore(y, m - 1) + DaysInMonth(y, m - 1)

\* Day number of a date of the epoch's year.
DayNumber(m, d) == DaysBefore(Epoch.year, m) + d - 1

\* dt.astimezone(ist).date() of a UTC minute count.
IstDate(minute) == (minute + IstOffset) \div MinutesPerDay

-----------------------------------------------------------------------------
(* Instants *)

\* The instant jd + off ticks.
Instant(jd, off) == <<jd + (off \div TicksPerMinute), off % TicksPerMinute>>

Before(a, b)   == a[1] < b[1] \/ (a[1] = b[1] /\ a[2] < b[2])
AtOrAfter(a, b) == ~Before(a, b)

\* Ticks from instant a to instant b >= a (at most a solar month apart).
TicksBetween(a, b) == (b[1] - a[1]) * TicksPerMinute + (b[2] - a[2])

-----------------------------------------------------------------------------
(* The position oracle: Ephemeris.get_planetary_positions *)

\* Lengths in minutes of the twelve solar months, Mesha (Boishakh) first.
\* Drik: the sidereal months as they are (30.93, 31.41, ... days, 365.25 in all).
\* LongFirst, ShortFirst: the 29-day and 32-day extremes, 365 days in all.
DrikMonths ==
    <<44539, 45230, 45547, 45317, 44683, 43862,
      43056, 42466, 42221, 42408, 42941, 43690>>

LongFirstMonths ==
    [i \in 1..12 |-> MinutesPerDay * <<32, 32, 32, 32, 32, 29, 29, 29, 29, 29, 29, 31>>[i]]

ShortFirstMonths ==
    [i \in 1..12 |-> MinutesPerDay * <<29, 29, 29, 29, 29, 29, 32, 32, 32, 32, 32, 31>>[i]]

MonthPatterns == {DrikMonths, LongFirstMonths, ShortFirstMonths}

\* The UTC instant of h:mn IST on a date of the epoch's year, less `back` ticks.
IstInstant(m, d, h, mn, back) ==
    Instant(DayNumber(m, d) * MinutesPerDay + h * 60 + mn - IstOffset, 0 - back)

\* The Mesha Sankranti of the epoch's year: late in the evening, just after
\* midnight, at noon, and one tick before midnight (all IST).
MeshaIngresses ==
    { IstInstant(4, 13, 23, 50, 0),
      IstInstant(4, 14, 0, 10, 0),
      IstInstant(4, 13, 12, 0, 0),
      IstInstant(4, 14, 0, 0, 1) }

\* Signs are numbered from the Mesha Sankranti of the epoch's year: sign n is
\* zodiac sign n mod 12, and the Sun enters it at ingress[n].
FirstSign == 0 - 3
LastSign  == 12 + 1

RECURSIVE IngressMinute(_, _, _)
IngressMinute(base, lens, n) ==
    IF n = 0 THEN base
    ELSE IF n > 0 THEN IngressMinute(base, lens, n - 1) + lens[((n - 1) % 12) + 1]
    ELSE IngressMinute(base, lens, n + 1) - lens[(n % 12) + 1]

\* The Moon moves moon_rate/1200 degree a minute: 11 is the Moon as it is
\* (13.2 degrees a day), 5 an oracle whose Moon is slower than any real one.
RealMoon == 10 + 1
SlowMoon == 4 + 1

MakeEphemeris(mesha, lens, rate) ==
    [ingress |-> [n \in FirstSign..LastSign |->
                     <<IngressMinute(mesha[1], lens, n), mesha[2]>>],
     moon_rate |-> rate]

Ephemerides == {MakeEphemeris(b, l, RealMoon) : b \in MeshaIngresses, l \in MonthPatterns}

\* The sign the Sun is in at instant t.
SignAt(e, t) ==
    CHOOSE n \in FirstSign..(LastSign - 1) :
        AtOrAfter(t, e.ingress[n]) /\ Before(t, e.ingress[n + 1])

\* sun_long of get_planetary_positions at instant t.
SunLongitude(e, t) ==
    LET n == SignAt(e, t)
    IN  [deg |-> 30 * (n % 12), part |-> TicksBetween(e.ingress[n], t)]

\* Comparisons of a longitude (or a difference of longitudes) with a
\* multiple c of 30 degrees; 0 <= the fractional part < 30 degrees.
LessThan(x, c)    == x.deg < c
GreaterThan(x, c) == x.deg > c \/ (x.deg = c /\ x.part > 0)
Plus(x, c)        == [deg |-> x.deg + c, part |-> x.part]

\* int(sun_long / 30)
SignIndex(x) == x.deg \div 30

-----------------------------------------------------------------------------
(* SolarCalendar.get_bengali_date *)

\* An off-by-one in the loop bound.
NIterOneMore == 20 + 1

NIter == 20

BracketDays         == 32
FallbackLowerDays   == 65
FallbackUpperDays   == 15

get_sun_offset(e, t, deg) ==
    LET s_long == SunLongitude(e, t)
        diff   == Plus(s_long, 0 - deg)
        up     == IF LessThan(diff, -180) THEN Plus(diff, 360) ELSE diff
    IN  IF GreaterThan(up, 180) THEN Plus(up, -360) ELSE up

\* The two branches of the loop body exchanged.
BisectionStepSwapped(e, jd, lo, up, deg) ==
    LET mid == lo + (up - lo) \div 2
        off == get_sun_offset(e, Instant(jd, mid), deg)
    IN  IF GreaterThan(off, 0) THEN <<mid, up>> ELSE <<lo, mid>>

\* One iteration of either for-loop: the new <<lower, upper>>.
BisectionStep(e, jd, lo, up, deg) ==
    LET mid == lo + (up - lo) \div 2
        off == get_sun_offset(e, Instant(jd, mid), deg)
    IN  IF GreaterThan(off, 0) THEN <<lo, mid>> ELSE <<mid, up>>

\* swe.revjul and the truncation to whole hours, minutes and seconds.
IngressUtc(t) ==
    LET mod == t[1] % MinutesPerDay
    IN  [day |-> t[1] \div MinutesPerDay,
         h   |-> mod \div 60,
         mn  |-> mod % 60,
         s   |-> (t[2] * 60) \div TicksPerMinute]

\* ingress_utc.astimezone(ist).date()
SankrantiDate(t) ==
    LET u == IngressUtc(t)
    IN  (u.day * MinutesPerDay + u.h * 60 + u.mn + IstOffset) \div MinutesPerDay

Day1Date(sankranti_date) == sankranti_date + 1

DayOfMonth(cur, ingress) == (cur - Day1Date(SankrantiDate(ingress))) + 1

\* The guard with < for <=.
NeedsFallbackStrict(day) == day < 0

NeedsFallback(day) == day <= 0

PrevMonthIndex(m) == (m - 1) % 12

\* The year with the April test left out: Boishakh decides in every month.
BangabdaByMonthOnly(cur, m) ==
    LET g == GregorianDate(cur)
    IN  IF m = 0 THEN g.year - 593 ELSE g.year - 594

Bangabda(cur, m) ==
    LET g == GregorianDate(cur)
    IN  IF g.month < 4 THEN g.year - 594
        ELSE IF g.month > 4 THEN g.year - 593
        ELSE IF m = 0 THEN g.year - 593
        ELSE g.year - 594

-----------------------------------------------------------------------------
(* The parts of the state a specification does not use *)

\* queries: history, the oracle queries the search for the end time made.
NoElement == [index |-> 0, name |-> 0, end |-> None, queries |-> 0]

PanchangFieldsUnset ==
    /\ sun_long = 0
    /\ moon_long = 0
    /\ tithi = NoElement
    /\ nakshatra = NoElement
    /\ yoga = NoElement
    /\ karana = [idx |-> 0, name |-> ""]
    /\ search = [dt |-> 0, k |-> 0]
    /\ sunrise = None
    /\ sunset = None
    /\ timings = << >>
    /\ bengali = None

PanchangIdle ==
    /\ ppc = "idle"
    /\ self_dt = 0
    /\ PanchangFieldsUnset

CivilIdle ==
    /\ dt = 0
    /\ pc = "idle"
    /\ month_index = 0
    /\ sign_start_deg = 0
    /\ lower = 0
    /\ upper = 0
    /\ iter = 0
    /\ current_date = 0
    /\ day_of_month = 0
    /\ bangabda = 0
    /\ fallbacks = 0
    /\ bisections = 0

ParallelIdle ==
    /\ topo = None
    /\ observer = << >>
    /\ tpc = << >>
    /\ calls = << >>
    /\ seen = << >>

SweepIdle == last = None

-----------------------------------------------------------------------------
(* The queries *)

SweepDays == 395

\* Times of day (IST minutes) a date is queried at.
QueryTimes == {5, 12 * 60, 23 * 60 + 55}

FirstQueryDate == DayNumber(4, 1)

QueryMoments ==
    { (FirstQueryDate + d) * MinutesPerDay + q - IstOffset :
          d \in 0..(SweepDays - 1), q \in QueryTimes }

\* The locals of get_bengali_date on entry with the query moment q.
CivilEntry(q, at) ==
    /\ dt = q
    /\ pc = at
    /\ month_index = 0
    /\ sign_start_deg = 0
    /\ lower = 0
    /\ upper = 0
    /\ iter = 0
    /\ current_date = 0
    /\ day_of_month = 0
    /\ bangabda = 0
    /\ fallbacks = 0
    /\ bisections = 0

CivilInit ==
    /\ eph \in Ephemerides
    /\ \E q \in QueryMoments : CivilEntry(q, "ComputeCurrentMonth")
    /\ PanchangIdle
    /\ ParallelIdle
    /\ SweepIdle

\* solar.py 45-82: the zodiacal month and the first bracket.
ComputeCurrentMonth ==
    /\ pc = "ComputeCurrentMonth"
    /\ LET m == SignIndex(SunLongitude(eph, Instant(dt, 0)))
       IN  /\ month_index' = m
           /\ sign_start_deg' = m * 30
    /\ lower' = 0 - BracketDays * TicksPerDay
    /\ upper' = 0
    /\ iter' = 0
    /\ pc' = "ComputeDay"
    /\ UNCHANGED <<eph, dt, current_date, day_of_month, bangabda, fallbacks, bisections>>
    /\ UNCHANGED <<panchangVars, parallelVars, sweepVars>>

\* solar.py 86-92: one iteration of the first for-loop.
BisectCurrent ==
    /\ pc = "ComputeDay"
    /\ iter < NIter
    /\ LET b == BisectionStep(eph, dt, lower, upper, sign_start_deg)
       IN  lower' = b[1] /\ upper' = b[2]
    /\ iter' = iter + 1
    /\ bisections' = bisections + 1
    /\ UNCHANGED <<eph, dt, pc, month_index, sign_start_deg, current_date,
                   day_of_month, bangabda, fallbacks>>
    /\ UNCHANGED <<panchangVars, parallelVars, sweepVars>>

\* solar.py 94-165 and 186-205: day 1, the day of the month, and either the
\* year and the return, or the previous month's bracket.
ComputeDay ==
    /\ pc = "ComputeDay"
    /\ iter = NIter
    /\ LET cur == IstDate(dt)
           day == DayOfMonth(cur, Instant(dt, upper))
       IN  /\ current_date' = cur
           /\ day_of_month' = day
           /\ IF NeedsFallback(day)
              THEN /\ sign_start_deg' = PrevMonthIndex(month_index) * 30
                   /\ lower' = 0 - FallbackLowerDays * TicksPerDay
                   /\ upper' = 0 - FallbackUpperDays * TicksPerDay
                   /\ iter' = 0
                   /\ fallbacks' = fallbacks + 1
                   /\ pc' = "Fallback_PreviousMonth"
                   /\ UNCHANGED bangabda
              ELSE /\ bangabda' = Bangabda(cur, month_index)
                   /\ pc' = "Done"
                   /\ UNCHANGED <<sign_start_deg, lower, upper, iter, fallbacks>>
    /\ UNCHANGED <<eph, dt, month_index, bisections>>
    /\ UNCHANGED <<panchangVars, parallelVars, sweepVars>>

\* solar.py 167-171: one iteration of the second for-loop.
BisectPrevious ==
    /\ pc = "Fallback_PreviousMonth"
    /\ iter < NIter
    /\ LET b == BisectionStep(eph, dt, lower, upper, sign_start_deg)
       IN  lower' = b[1] /\ upper' = b[2]
    /\ iter' = iter + 1
    /\ bisections' = bisections + 1
    /\ UNCHANGED <<eph, dt, pc, month_index, sign_start_deg, current_date,
                   day_of_month, bangabda, fallbacks>>
    /\ UNCHANGED <<panchangVars, parallelVars, sweepVars>>

\* solar.py 173-205: the day of the previous month, the year and the return.
FallbackDay ==
    /\ pc = "Fallback_PreviousMonth"
    /\ iter = NIter
    /\ day_of_month' = DayOfMonth(current_date, Instant(dt, upper))
    /\ month_index' = PrevMonthIndex(month_index)
    /\ bangabda' = Bangabda(current_date, PrevMonthIndex(month_index))
    /\ pc' = "Done"
    /\ UNCHANGED <<eph, dt, sign_start_deg, lower, upper, iter, current_date,
                   fallbacks, bisections>>
    /\ UNCHANGED <<panchangVars, parallelVars, sweepVars>>

\* The caller's next call: a later moment, at most a day on.
NewQuery ==
    /\ pc = "Done"
    /\ dt' \in {q \in QueryMoments : dt < q /\ q <= dt + MinutesPerDay}
    /\ pc' = "ComputeCurrentMonth"
    /\ month_index' = 0
    /\ sign_start_deg' = 0
    /\ lower' = 0
    /\ upper' = 0
    /\ iter' = 0
    /\ current_date' = 0
    /\ day_of_month' = 0
    /\ bangabda' = 0
    /\ fallbacks' = 0
    /\ bisections' = 0
    /\ UNCHANGED <<eph, panchangVars, parallelVars, sweepVars>>

CivilNext ==
    \/ ComputeCurrentMonth
    \/ BisectCurrent
    \/ ComputeDay
    \/ BisectPrevious
    \/ FallbackDay
    \/ NewQuery

SpecCivil == CivilInit /\ [][CivilNext]_vars

\* The steps of one call of get_bengali_date.
CivilStep ==
    \/ ComputeCurrentMonth
    \/ BisectCurrent
    \/ ComputeDay
    \/ BisectPrevious
    \/ FallbackDay

-----------------------------------------------------------------------------
(* Properties of get_bengali_date *)

\* The sign the Sun is in at the query moment, and the IST date of the
\* instant the Sun entered it (the Sankranti itself, as the oracle has it).
QuerySign == SignAt(eph, Instant(dt, 0))
TrueSankrantiDate == (eph.ingress[QuerySign][1] + IstOffset) \div MinutesPerDay
DaysSinceSankranti == IstDate(dt) - TrueSankrantiDate

\* C1: the day of the month get_bengali_date returns is at least 1, on every
\* date of the sweep; in particular, when the first computation gave a day <= 0
\* the recomputation against the previous month gives a day >= 1.
C1_FinalDayPositive ==
    pc = "Done" => day_of_month >= 1

C1_Witness ==
    pc = "Done" /\ fallbacks = 1 /\ day_of_month >= 29

\* A measure of the work left in a call: it falls with every step.
CivilRank ==
    CASE pc = "ComputeCurrentMonth"    -> 2 * NIter + 3
      [] pc = "ComputeDay"             -> 2 * NIter + 2 - iter
      [] pc = "Fallback_PreviousMonth" -> NIter + 1 - iter
      [] pc = "Done"                   -> 0

\* Some step of the call can be taken: the guards of CivilStep's actions.
CivilStepPossible ==
    \/ pc = "ComputeCurrentMonth"
    \/ pc \in {"ComputeDay", "Fallback_PreviousMonth"} /\ (iter < NIter \/ iter = NIter)

\* C7: a call always ends in Done: until then a step is possible and every step
\* lowers the measure; the fallback is entered at most once, there are at most
\* 20 + 20 bisection steps, nothing leads back into ComputeDay and the
\* fallback leads only to Done.
C7_ReachesDone ==
    /\ [](fallbacks <= 1 /\ bisections <= 20 + 20)
    /\ [](pc # "Done" => CivilStepPossible)
    /\ [][CivilStep => CivilRank' < CivilRank /\ CivilRank' >= 0]_vars
    /\ [][pc = "Fallback_PreviousMonth" =>
              pc' \in {"Fallback_PreviousMonth", "Done"}]_vars
    /\ [][pc' = "ComputeDay" => pc \in {"ComputeCurrentMonth", "ComputeDay"}]_vars

C7_Witness ==
    pc = "Done" /\ fallbacks = 1 /\ bisections = 20 + 20

\* C8: the year returned is the Gregorian year of the query's IST date less
\* 594 before April, less 593 after April, and in April less 593 when the
\* month returned is Boishakh (index 0) and less 594 otherwise.
C8_BangabdaRule ==
    pc = "Done" =>
        LET g == GregorianDate(IstDate(dt))
        IN  /\ g.month < 4 => bangabda = g.year - 594
            /\ g.month > 4 => bangabda = g.year - 593
            /\ (g.month = 4 /\ month_index = 0) => bangabda = g.year - 593
            /\ (g.month = 4 /\ month_index # 0) => bangabda = g.year - 594

\* On the date of the Mesha Sankranti: the fallback has resolved Chaitra.
C8_Witness ==
    /\ pc = "Done"
    /\ fallbacks = 1
    /\ month_index = 11
    /\ GregorianDate(IstDate(dt)).month = 4
    /\ bangabda = GregorianDate(IstDate(dt)).year - 594

\* C10: k >= 1 days after the IST date of the Sankranti the result is day k of
\* the zodiacal month, without the fallback; the fallback is taken exactly on
\* the IST date of the Sankranti.
C10_DayCountsFromSankranti ==
    pc = "Done" =>
        /\ DaysSinceSankranti >= 1 =>
               /\ day_of_month = DaysSinceSankranti
               /\ month_index = QuerySign % 12
               /\ fallbacks = 0
        /\ fallbacks = 1 <=> DaysSinceSankranti = 0

\* The bisection in progress: pc is one of the two loops, before its first
\* iteration (iter = 0), between iterations, or after the last (iter = NIter).
InLoop == pc \in {"ComputeDay", "Fallback_PreviousMonth"}

\* The sign whose ingress the loop in progress looks for, and that ingress
\* as the oracle has it, in ticks relative to the query moment.
TargetSign == IF pc = "ComputeDay" THEN QuerySign ELSE QuerySign - 1
TargetIngress == 0 - TicksBetween(eph.ingress[TargetSign], Instant(dt, 0))

\* The width the loop in progress started with, in ticks.
InitialWidth ==
    IF pc = "ComputeDay" THEN BracketDays * TicksPerDay
    ELSE (FallbackLowerDays - FallbackUpperDays) * TicksPerDay

\* The signed offsets of the two endpoints, as the loop body computes them.
LowerOffset == get_sun_offset(eph, Instant(dt, lower), sign_start_deg)
UpperOffset == get_sun_offset(eph, Instant(dt, upper), sign_start_deg)

\* What both statements of C11 share: the loop looks for the ingress into
\* the sign of sign_start_deg, that ingress is inside the bracket, the width
\* has halved with every iteration, and after the last one the upper endpoint
\* is at or after the ingress by at most the initial width / 2^20.
BracketHoldsIngress ==
    /\ (TargetSign % 12) * 30 = sign_start_deg
    /\ lower <= TargetIngress /\ TargetIngress <= upper
    /\ (upper - lower) * 2 ^ iter = InitialWidth
    /\ iter = NIter =>
           (upper - TargetIngress) * 2 ^ 20 <= InitialWidth

\* ((upper - TargetIngress) * 2^20 stays below 2^31: the difference is at
\* most 1125 ticks when iter = NIter.)

\* C11, as stated: in both loops, before and after each of the 20 iterations,
\* the lower endpoint has offset <= 0 and the upper endpoint offset > 0, the
\* ingress is inside the bracket, the width halves with each iteration, and
\* the upper endpoint returned is at or after the ingress by at most the
\* initial width / 2^20.
C11_BracketStrict ==
    InLoop =>
        /\ ~GreaterThan(LowerOffset, 0)
        /\ GreaterThan(UpperOffset, 0)
        /\ BracketHoldsIngress

\* C11, amended: the same, with offset >= 0 at the upper endpoint, and > 0
\* unless the upper endpoint is the ingress itself (a query at the very
\* instant of the Sankranti: the first loop then never moves upper).
C11_BracketInvariant ==
    InLoop =>
        /\ ~GreaterThan(LowerOffset, 0)
        /\ ~LessThan(UpperOffset, 0)
        /\ (upper # TargetIngress => GreaterThan(UpperOffset, 0))
        /\ (upper = TargetIngress => pc = "ComputeDay" /\ upper = 0)
        /\ BracketHoldsIngress

\* The second loop has run its 20 iterations and stopped within its last
\* step after the ingress.
C11_Witness ==
    /\ pc = "Fallback_PreviousMonth"
    /\ iter = NIter
    /\ upper > TargetIngress
    /\ upper - lower = 1125
    /\ GreaterThan(UpperOffset, 0)
    /\ ~GreaterThan(LowerOffset, 0)

-----------------------------------------------------------------------------
(* A caller sweeping get_bengali_date over the dates of a year *)

\* The number of dates swept, from FirstQueryDate on.
SweepDates == 385

SweepMoments ==
    { (FirstQueryDate + d) * MinutesPerDay + q - IstOffset :
          d \in 0..(SweepDates - 1), q \in QueryTimes }

\* A Mesha Sankranti 360 ticks (1.3 s) before IST midnight: nearer to it
\* than one step of the bisection (720 ticks).
NearMidnight == IstInstant(4, 14, 0, 0, 360)

\* The months as they are with the Sankranti late in the evening and near
\* midnight, and the two extremes with it at noon and just after midnight.
SweepEphemerides ==
    { MakeEphemeris(IstInstant(4, 13, 23, 50, 0), DrikMonths, RealMoon),
      MakeEphemeris(NearMidnight, DrikMonths, RealMoon),
      MakeEphemeris(IstInstant(4, 13, 12, 0, 0), ShortFirstMonths, RealMoon),
      MakeEphemeris(IstInstant(4, 14, 0, 10, 0), LongFirstMonths, RealMoon) }

SweepInit ==
    /\ eph \in SweepEphemerides
    /\ \E q \in SweepMoments :
           /\ IstDate(q) = FirstQueryDate
           /\ CivilEntry(q, "ComputeCurrentMonth")
    /\ PanchangIdle
    /\ ParallelIdle
    /\ SweepIdle

\* solar.py 205, and the caller's next call: what was returned is kept, and
\* the next query is later on the same IST date or on the next one.
NextQuery ==
    /\ pc = "Done"
    /\ last' = Some([dt |-> dt, date |-> IstDate(dt), day |-> day_of_month,
                     month |-> month_index, year |-> bangabda])
    /\ dt' \in {q \in SweepMoments : dt < q /\ IstDate(q) <= IstDate(dt) + 1}
    /\ pc' = "ComputeCurrentMonth"
    /\ month_index' = 0
    /\ sign_start_deg' = 0
    /\ lower' = 0
    /\ upper' = 0
    /\ iter' = 0
    /\ current_date' = 0
    /\ day_of_month' = 0
    /\ bangabda' = 0
    /\ fallbacks' = 0
    /\ bisections' = 0
    /\ UNCHANGED <<eph, panchangVars, parallelVars>>

SweepNext ==
    \/ ComputeCurrentMonth
    \/ BisectCurrent
    \/ ComputeDay
    \/ BisectPrevious
    \/ FallbackDay
    \/ NextQuery

SpecSweep == SweepInit /\ [][SweepNext]_vars

\* The call has returned and the call before it was for the date before.
OnNextDate == pc = "Done" /\ last # None /\ IstDate(dt) = last[1].date + 1

\* The IST date of the instant the Sun enters Mesha in the sign of the query
\* or the one after it.
MeshaSankrantiDates ==
    { (eph.ingress[n][1] + IstOffset) \div MinutesPerDay :
          n \in {m \in {QuerySign, QuerySign + 1} : m % 12 = 0} }

\* C12: between calls for consecutive IST dates the year returned goes up by
\* exactly 1 when the later result is day 1 of Boishakh, and is the same
\* otherwise (31 December to 1 January included); on the date of the Mesha
\* Sankranti the result is still Chaitra, in the year of the day before.
C12_YearChangesOnFirstBoishakh ==
    OnNextDate =>
        /\ (day_of_month = 1 /\ month_index = 0) => bangabda = last[1].year + 1
        /\ ~(day_of_month = 1 /\ month_index = 0) => bangabda = last[1].year
        /\ IstDate(dt) \in MeshaSankrantiDates =>
               month_index = 11 /\ bangabda = last[1].year

\* The call has returned, the call before it was for the same IST date and
\* the Sun entered the sign of this query between the two, on that date.
AcrossSankranti ==
    /\ pc = "Done"
    /\ last # None
    /\ IstDate(dt) = last[1].date
    /\ TrueSankrantiDate = IstDate(dt)
    /\ Before(Instant(last[1].dt, 0), eph.ingress[QuerySign])

\* C13: between calls for consecutive IST dates the result goes from a day
\* to the next day of the same month, or to day 1 of the next month; and two
\* calls for the same IST date, one before and one after the Sankranti of
\* that date, return the same day and month.
C13_Continuity ==
    /\ OnNextDate =>
           \/ day_of_month = last[1].day + 1 /\ month_index = last[1].month
           \/ day_of_month = 1 /\ month_index = (last[1].month + 1) % 12
    /\ AcrossSankranti =>
           day_of_month = last[1].day /\ month_index = last[1].month

-----------------------------------------------------------------------------
(* Panchang._calculate_elements: the four classifications *)

\* Longitudes are whole multiples of 1/LongRes degree.
LongRes == 1

FullCircle == 360 * LongRes

Longitudes == 0..(FullCircle - 1)

\* int(a / b) for b > 0: truncation towards zero.
PyInt(a, b) == IF a >= 0 THEN a \div b ELSE 0 - ((0 - a) \div b)

\* utils.normalize_degrees: any degree value into [0, 360).
normalize_degrees(x) == x % FullCircle

\* panchang.py 39-40, with the longitudes not normalised.
TithiIndexRaw(sun, moon) == PyInt(moon - sun, 12 * LongRes)

\* panchang.py 39-40: int(normalize_degrees(moon - sun) / 12)
TithiIndex(sun, moon) == PyInt(normalize_degrees(moon - sun), 12 * LongRes)

\* panchang.py 45: int(moon / (360 / 27))
NakshatraIndex(sun, moon) == PyInt(moon * 27, FullCircle)

\* panchang.py 50-51: int(normalize_degrees(sun + moon) / (360 / 27))
YogaIndex(sun, moon) == PyInt(normalize_degrees(sun + moon) * 27, FullCircle)

\* panchang.py 39, 56: int(diff / 6)
KaranaIndex(sun, moon) == PyInt(normalize_degrees(moon - sun), 6 * LongRes)

\* The classifiers handed to _calculate_end_time.
get_tithi_index(sun, moon)     == PyInt(normalize_degrees(moon - sun), 12 * LongRes)
get_nakshatra_index(sun, moon) == PyInt(moon * 27, FullCircle)
get_yoga_index(sun, moon)      == PyInt(normalize_degrees(sun + moon) * 27, FullCircle)

\* The name tables of utils: a name is kept as its position in its table,
\* the movable karanas by name.
TithiName(i)     == i % 30
NakshatraName(i) == i % 27
YogaName(i)      == i % 27

KARANAS_MOVABLE ==
    <<"Bava", "Balava", "Kaulava", "Taitila", "Gara", "Vanija", "Vishti">>

\* panchang.py 57-64 with > 57 for >= 57.
KaranaNameLateFixed(i) ==
    IF i = 0 THEN "Kimstughna"
    ELSE IF i > 57
         THEN (IF i = 57 THEN "Shakuni"
               ELSE IF i = 58 THEN "Chatushpada"
               ELSE "Naga")
         ELSE KARANAS_MOVABLE[((i - 1) % 7) + 1]

\* panchang.py 57-64
KaranaName(i) ==
    IF i = 0 THEN "Kimstughna"
    ELSE IF i >= 57
         THEN (IF i = 57 THEN "Shakuni"
               ELSE IF i = 58 THEN "Chatushpada"
               ELSE "Naga")
         ELSE KARANAS_MOVABLE[((i - 1) % 7) + 1]

Karana(sun, moon) ==
    [idx |-> KaranaIndex(sun, moon), name |-> KaranaName(KaranaIndex(sun, moon))]

ElementsInit ==
    /\ eph = None
    /\ CivilIdle
    /\ ParallelIdle
    /\ SweepIdle
    /\ ppc = "elements"
    /\ self_dt = 0
    /\ sun_long \in Longitudes
    /\ moon_long \in Longitudes
    /\ tithi = NoElement
    /\ nakshatra = NoElement
    /\ yoga = NoElement
    /\ karana = [idx |-> 0, name |-> ""]
    /\ search = [dt |-> 0, k |-> 0]
    /\ sunrise = None
    /\ sunset = None
    /\ timings = << >>
    /\ bengali = None

\* panchang.py 39-41, 45-46, 50-52, 56-64: the indices and names of one pair
\* of longitudes (the end times are the searches of the evaluation below).
Classify ==
    /\ ppc = "elements"
    /\ tithi' = [tithi EXCEPT !.index = TithiIndex(sun_long, moon_long),
                              !.name = TithiName(TithiIndex(sun_long, moon_long))]
    /\ nakshatra' = [nakshatra EXCEPT !.index = NakshatraIndex(sun_long, moon_long),
                                      !.name = NakshatraName(NakshatraIndex(sun_long, moon_long))]
    /\ yoga' = [yoga EXCEPT !.index = YogaIndex(sun_long, moon_long),
                            !.name = YogaName(YogaIndex(sun_long, moon_long))]
    /\ karana' = Karana(sun_long, moon_long)
    /\ ppc' = "classified"
    /\ UNCHANGED <<eph, civilVars, parallelVars, sweepVars, self_dt, sun_long, moon_long,
                   search, sunrise, sunset, timings, bengali>>

ElementsNext == Classify

SpecElements == ElementsInit /\ [][ElementsNext]_vars

\* C2: for every pair of longitudes in [0, 360) the tithi index is in 0..29, the
\* nakshatra and yoga indices in 0..26 and the karana index in 0..59, so each
\* name-table lookup uses the index itself, inside its table.
C2_IndicesInRange ==
    ppc = "classified" =>
        /\ tithi.index \in 0..29 /\ tithi.name = tithi.index
        /\ nakshatra.index \in 0..26 /\ nakshatra.name = nakshatra.index
        /\ yoga.index \in 0..26 /\ yoga.name = yoga.index
        /\ karana.idx \in 0..59

\* The Moon behind the Sun and both near the end of the circle: the last
\* tithi, karana and nakshatra, and a sum that has to be normalised.
C2_Witness ==
    /\ ppc = "classified"
    /\ moon_long < sun_long
    /\ sun_long + moon_long >= FullCircle
    /\ tithi.index = 29
    /\ karana.idx = 59
    /\ nakshatra.index = 26

\* The name the claim gives karana index i.
KaranaNameClaimed(i) ==
    CASE i = 0       -> "Kimstughna"
      [] i = 57      -> "Shakuni"
      [] i = 58      -> "Chatushpada"
      [] i = 59      -> "Naga"
      [] i \in 1..56 -> KARANAS_MOVABLE[((i - 1) % 7) + 1]

\* The code's mapping on the whole of 0..59: the claimed names; the fixed names
\* used for {0}, {57}, {58}, {59} alone; each of the seven movable names used
\* for exactly 8 indices, all in 1..56.
KaranaPartition ==
    /\ \A i \in 0..59 : KaranaName(i) = KaranaNameClaimed(i)
    /\ {i \in 0..59 : KaranaName(i) = "Kimstughna"} = {0}
    /\ {i \in 0..59 : KaranaName(i) = "Shakuni"} = {57}
    /\ {i \in 0..59 : KaranaName(i) = "Chatushpada"} = {58}
    /\ {i \in 0..59 : KaranaName(i) = "Naga"} = {59}
    /\ \A j \in 1..7 :
          LET used == {i \in 0..59 : KaranaName(i) = KARANAS_MOVABLE[j]}
          IN  Cardinality(used) = 8 /\ used \subseteq 1..56

\* C3: the karana name is total and non-overlapping on 0..59: the name computed
\* for a pair of longitudes is the claimed one for its index, and over 0..59
\* the names partition the indices as {0}, {57}, {58}, {59} and 1..56, the
\* seven movable names taking 8 indices each.
C3_KaranaNames ==
    /\ ppc = "classified" => karana.name = KaranaNameClaimed(karana.idx)
    /\ KaranaPartition

C3_Witness ==
    /\ ppc = "classified"
    /\ karana.idx = 57
    /\ karana.name = "Shakuni"

-----------------------------------------------------------------------------
(* Panchang._calculate_timings *)

\* A datetime of the day is [s |-> seconds since 00:00 of self.dt's date,
\* us |-> microseconds]; a timedelta likewise.
Clock(h, mn, sec) == (h * 60 + mn) * 60 + sec

At(secs) == [s |-> secs, us |-> 0]

\* a / b rounded to the nearest whole number, halves to the even one.
RoundHalfEven(a, b) ==
    LET q == a \div b
        r == a % b
    IN  IF 2 * r < b THEN q
        ELSE IF 2 * r > b THEN q + 1
        ELSE IF q % 2 = 0 THEN q ELSE q + 1

\* timedelta(minutes = num * (day_duration / den)), day_duration the minutes
\* of `secs` seconds: secs * num / den seconds, to the nearest microsecond.
PartsDelta(secs, num, den) ==
    LET whole == (secs * num) \div den
        rest  == (secs * num) % den
    IN  [s |-> whole, us |-> RoundHalfEven(rest * 1000000, den)]

\* datetime + timedelta
AddDelta(t, d) ==
    [s  |-> t.s + d.s + ((t.us + d.us) \div 1000000),
     us |-> (t.us + d.us) % 1000000]

\* self.dt.weekday(), 0 = Monday; the epoch's date, 2024-01-01, is a Monday.
Weekday(minute) == (minute \div MinutesPerDay) % 7

\* panchang.py 100 with the entries of Monday and Saturday exchanged.
rahu_indices_swapped == [w \in 0..6 |-> <<2, 6, 4, 5, 3, 1, 7>>[w + 1]]

\* panchang.py 100, 105
rahu_indices == [w \in 0..6 |-> <<1, 6, 4, 5, 3, 2, 7>>[w + 1]]
yama_indices == [w \in 0..6 |-> <<3, 2, 1, 0, 6, 5, 4>>[w + 1]]

\* panchang.py 94-121: self.timings for a sunrise and a sunset that are there.
Timings(rise, set, weekday) ==
    LET day_secs     == set.s - rise.s
        rahu_start   == AddDelta(rise, PartsDelta(day_secs, rahu_indices[weekday], 8))
        yama_start   == AddDelta(rise, PartsDelta(day_secs, yama_indices[weekday], 8))
        abhijit_start == AddDelta(rise, PartsDelta(day_secs, 7, 15))
    IN  [rahu_start    |-> rahu_start,
         rahu_end      |-> AddDelta(rahu_start, PartsDelta(day_secs, 1, 8)),
         yama_start    |-> yama_start,
         yama_end      |-> AddDelta(yama_start, PartsDelta(day_secs, 1, 8)),
         abhijit_start |-> abhijit_start,
         abhijit_end   |-> AddDelta(abhijit_start, PartsDelta(day_secs, 1, 15))]

\* panchang.py 93-121 with a sunset that is not there taken to be the sunrise.
SelfTimingsDefaulted(r, t, weekday) ==
    IF r # None
    THEN Timings(r[1], IF t # None THEN t[1] ELSE r[1], weekday)
    ELSE << >>

\* panchang.py 93-121: self.timings, r and t the sunrise and sunset returned.
SelfTimings(r, t, weekday) ==
    IF r # None /\ t # None THEN Timings(r[1], t[1], weekday) ELSE << >>

\* What get_sunrise_sunset may return: whole seconds, or None.
RiseTimes == {Clock(6, 0, 0), Clock(5, 13, 7), Clock(0, 2, 11), Clock(7, 59, 59)}
SetTimes  == {Clock(18, 0, 0), Clock(17, 7, 13), Clock(11, 48, 2), Clock(8, 0, 0)}

SunriseResults == {None} \cup {Some(At(t)) : t \in RiseTimes}
SunsetResults  == {None} \cup {Some(At(t)) : t \in SetTimes}

\* panchang.py 90-121
CalculateTimings ==
    /\ ppc = "timings"
    /\ \E r \in SunriseResults, t \in SunsetResults :
          /\ sunrise' = r
          /\ sunset' = t
          /\ timings' = SelfTimings(r, t, Weekday(self_dt))
    /\ ppc' = "bengali_date"
    /\ UNCHANGED <<eph, civilVars, parallelVars, sweepVars, self_dt, sun_long, moon_long,
                   tithi, nakshatra, yoga, karana, search, bengali>>

\* Days the timings are computed for.
TimingDays == 7

TimingsInit ==
    /\ eph = None
    /\ CivilIdle
    /\ ParallelIdle
    /\ SweepIdle
    /\ ppc = "timings"
    /\ self_dt \in {(DayNumber(4, 1) + d) * MinutesPerDay + 6 * 60 : d \in 0..(TimingDays - 1)}
    /\ PanchangFieldsUnset

TimingsNext == CalculateTimings

SpecTimings == TimingsInit /\ [][TimingsNext]_vars

\* The Rahu Kalam part of a weekday, as the claim has it: Monday is 0.
RahuPartClaimed == <<1, 6, 4, 5, 3, 2, 7>>

\* A time of the day in eighths of a second, when it is a whole number of them.
Eighths(t) == 8 * t.s + t.us \div 125000

\* C5: when sunrise and sunset are there, Rahu Kalam starts at
\* sunrise + p(w) * (sunset - sunrise) / 8 and lasts (sunset - sunrise) / 8,
\* exactly; on a Monday with sunrise 06:00 and sunset 18:00 it is 07:30-09:00.
C5_RahuKalam ==
    (ppc = "bengali_date" /\ sunrise # None /\ sunset # None) =>
        LET w   == Weekday(self_dt)
            dur == sunset[1].s - sunrise[1].s
        IN  /\ DOMAIN timings # {}
            /\ timings.rahu_start.us % 125000 = 0
            /\ timings.rahu_end.us % 125000 = 0
            /\ Eighths(timings.rahu_start) = 8 * sunrise[1].s + RahuPartClaimed[w + 1] * dur
            /\ Eighths(timings.rahu_end) - Eighths(timings.rahu_start) = dur
            /\ (w = 0 /\ sunrise = Some(At(Clock(6, 0, 0))) /\ sunset = Some(At(Clock(18, 0, 0))))
                   => /\ timings.rahu_start = At(Clock(7, 30, 0))
                      /\ timings.rahu_end = At(Clock(9, 0, 0))

\* A Monday with sunrise 06:00 and sunset 18:00.
C5_Witness ==
    /\ ppc = "bengali_date"
    /\ Weekday(self_dt) = 0
    /\ sunrise = Some(At(Clock(6, 0, 0)))
    /\ sunset = Some(At(Clock(18, 0, 0)))
    /\ DOMAIN timings # {}
    /\ timings.rahu_start = At(Clock(7, 30, 0))

-----------------------------------------------------------------------------
(* Panchang.__init__: one evaluation *)

\* sun_long and moon_long of get_planetary_positions at minute t, in
\* 1/LongRes degree.
SunDegrees(e, t) ==
    LET n == SignAt(e, <<t, 0>>)
        since == t - e.ingress[n][1]
        len   == e.ingress[n + 1][1] - e.ingress[n][1]
    IN  30 * LongRes * (n % 12) + (30 * LongRes * since) \div len

MoonDegrees(e, t) == ((e.moon_rate * t * LongRes) \div 1200) % FullCircle

StepMinutes == 15

\* panchang.py 80 with one iteration fewer.
SearchStepsOneLess == (30 * 60) \div StepMinutes - 1

\* panchang.py 80: int(30 * 60 / step)
SearchSteps == (30 * 60) \div StepMinutes

\* panchang.py 81-88: one iteration of the for-loop of _calculate_end_time for
\* the classification `now` of the next sample: [over, end] when the function
\* returns, the loop's next state otherwise.
EndTimeStep(now, current_index) ==
    LET t == search.dt + StepMinutes
    IN  IF now # current_index
        THEN [over |-> TRUE, end |-> Some(t), queries |-> search.k + 1]
        ELSE IF search.k + 1 = SearchSteps
        THEN [over |-> TRUE, end |-> None, queries |-> search.k + 1]
        ELSE [over |-> FALSE, dt |-> t, k |-> search.k + 1]

SearchEntry == [dt |-> self_dt, k |-> 0]

Moments == 6

\* The moments evaluated: 23:55 IST on the date of the Mesha Sankranti, and
\* on from there in steps of a day and 97 minutes.
PanchangMoments ==
    { IstInstant(4, 13, 23, 55, 0)[1] + j * (MinutesPerDay + 97) : j \in 0..(Moments - 1) }

PanchangEphemerides ==
    { MakeEphemeris(b, DrikMonths, r) :
          b \in {IstInstant(4, 13, 23, 50, 0), IstInstant(4, 14, 0, 0, 1)},
          r \in {RealMoon, SlowMoon} }

PanchangInit ==
    /\ eph \in PanchangEphemerides
    /\ CivilIdle
    /\ ParallelIdle
    /\ SweepIdle
    /\ ppc = "init"
    /\ self_dt \in PanchangMoments
    /\ PanchangFieldsUnset

\* panchang.py 18-26 and 39-42: the positions, the tithi, and the entry of
\* its search.
Construct ==
    /\ ppc = "init"
    /\ LET s == SunDegrees(eph, self_dt)
           m == MoonDegrees(eph, self_dt)
       IN  /\ sun_long' = s
           /\ moon_long' = m
           /\ tithi' = [tithi EXCEPT !.index = TithiIndex(s, m),
                                     !.name = TithiName(TithiIndex(s, m))]
    /\ search' = SearchEntry
    /\ ppc' = "tithi_end"
    /\ UNCHANGED <<eph, civilVars, parallelVars, sweepVars, self_dt, nakshatra, yoga, karana,
                   sunrise, sunset, timings, bengali>>

\* panchang.py 75-88 for the tithi, then 45-47.
TithiEndStep ==
    /\ ppc = "tithi_end"
    /\ LET t == search.dt + StepMinutes
           r == EndTimeStep(get_tithi_index(SunDegrees(eph, t), MoonDegrees(eph, t)),
                            tithi.index)
       IN  IF r.over
           THEN /\ tithi' = [tithi EXCEPT !.end = r.end, !.queries = r.queries]
                /\ nakshatra' = [nakshatra EXCEPT
                                    !.index = NakshatraIndex(sun_long, moon_long),
                                    !.name = NakshatraName(NakshatraIndex(sun_long, moon_long))]
                /\ search' = SearchEntry
                /\ ppc' = "nakshatra_end"
           ELSE /\ search' = [dt |-> r.dt, k |-> r.k]
                /\ UNCHANGED <<tithi, nakshatra, ppc>>
    /\ UNCHANGED <<eph, civilVars, parallelVars, sweepVars, self_dt, sun_long, moon_long, yoga,
                   karana, sunrise, sunset, timings, bengali>>

\* panchang.py 75-88 for the nakshatra, then 50-53.
NakshatraEndStep ==
    /\ ppc = "nakshatra_end"
    /\ LET t == search.dt + StepMinutes
           r == EndTimeStep(get_nakshatra_index(SunDegrees(eph, t), MoonDegrees(eph, t)),
                            nakshatra.index)
       IN  IF r.over
           THEN /\ nakshatra' = [nakshatra EXCEPT !.end = r.end, !.queries = r.queries]
                /\ yoga' = [yoga EXCEPT
                               !.index = YogaIndex(sun_long, moon_long),
                               !.name = YogaName(YogaIndex(sun_long, moon_long))]
                /\ search' = SearchEntry
                /\ ppc' = "yoga_end"
           ELSE /\ search' = [dt |-> r.dt, k |-> r.k]
                /\ UNCHANGED <<nakshatra, yoga, ppc>>
    /\ UNCHANGED <<eph, civilVars, parallelVars, sweepVars, self_dt, sun_long, moon_long, tithi,
                   karana, sunrise, sunset, timings, bengali>>

\* panchang.py 75-88 for the yoga, then 56-64.
YogaEndStep ==
    /\ ppc = "yoga_end"
    /\ LET t == search.dt + StepMinutes
           r == EndTimeStep(get_yoga_index(SunDegrees(eph, t), MoonDegrees(eph, t)),
                            yoga.index)
       IN  IF r.over
           THEN /\ yoga' = [yoga EXCEPT !.end = r.end, !.queries = r.queries]
                /\ karana' = Karana(sun_long, moon_long)
                /\ search' = SearchEntry
                /\ ppc' = "timings"
           ELSE /\ search' = [dt |-> r.dt, k |-> r.k]
                /\ UNCHANGED <<yoga, karana, ppc>>
    /\ UNCHANGED <<eph, civilVars, parallelVars, sweepVars, self_dt, sun_long, moon_long, tithi,
                   nakshatra, sunrise, sunset, timings, bengali>>

\* panchang.py 123-124: the call of get_bengali_date(self.dt).
CallBengaliDate ==
    /\ ppc = "bengali_date"
    /\ pc = "idle"
    /\ dt' = self_dt
    /\ pc' = "ComputeCurrentMonth"
    /\ ppc' = "bengali_wait"
    /\ UNCHANGED <<eph, month_index, sign_start_deg, lower, upper, iter, current_date,
                   day_of_month, bangabda, fallbacks, bisections, parallelVars, sweepVars,
                   self_dt, sun_long, moon_long, tithi, nakshatra, yoga, karana,
                   search, sunrise, sunset, timings, bengali>>

\* panchang.py 124-127: the return of get_bengali_date; the evaluation is over.
ReturnBengaliDate ==
    /\ ppc = "bengali_wait"
    /\ pc = "Done"
    /\ bengali' = Some([day |-> day_of_month, month |-> month_index, year |-> bangabda])
    /\ ppc' = "done"
    /\ UNCHANGED <<eph, civilVars, parallelVars, sweepVars, self_dt, sun_long, moon_long, tithi,
                   nakshatra, yoga, karana, search, sunrise, sunset, timings>>

PanchangStep ==
    \/ Construct
    \/ TithiEndStep
    \/ NakshatraEndStep
    \/ YogaEndStep
    \/ CalculateTimings
    \/ CallBengaliDate
    \/ ReturnBengaliDate

PanchangNext ==
    \/ Construct
    \/ TithiEndStep
    \/ NakshatraEndStep
    \/ YogaEndStep
    \/ CalculateTimings
    \/ CallBengaliDate
    \/ ComputeCurrentMonth
    \/ BisectCurrent
    \/ ComputeDay
    \/ BisectPrevious
    \/ FallbackDay
    \/ ReturnBengaliDate

SpecPanchang == PanchangInit /\ [][PanchangNext]_vars

-----------------------------------------------------------------------------
(* Properties of the evaluation *)

\* The classification of the sample j steps of 15 minutes after the query
\* moment, by the classifier of the element `kind`.
ClassAt(kind, j) ==
    LET t == self_dt + 15 * j
        s == SunDegrees(eph, t)
        m == MoonDegrees(eph, t)
    IN  CASE kind = "tithi"     -> get_tithi_index(s, m)
          [] kind = "nakshatra" -> get_nakshatra_index(s, m)
          [] kind = "yoga"      -> get_yoga_index(s, m)

\* What C4 says of the finished search of element el.
EndTimeClaimed(kind, el) ==
    /\ el.index = ClassAt(kind, 0)
    /\ IF el.end # None
       THEN \E k \in 1..120 :
               /\ el.end = Some(self_dt + 15 * k)
               /\ ClassAt(kind, k) # el.index
               /\ \A j \in 1..(k - 1) : ClassAt(kind, j) = el.index
               /\ el.queries = k
       ELSE /\ \A j \in 1..120 : ClassAt(kind, j) = el.index
            /\ el.queries = 120

\* C4: each search of _calculate_end_time returns the earliest of the 120
\* samples, 15 minutes apart, that classifies differently from the index at the
\* query moment, having asked the oracle once per sample up to it; when no
\* sample differs it has asked 120 times and returns None, and the evaluation
\* goes on to its next part.
C4_EarliestChange ==
    /\ (ppc = "nakshatra_end" /\ search.k = 0) => EndTimeClaimed("tithi", tithi)
    /\ (ppc = "yoga_end" /\ search.k = 0) => EndTimeClaimed("nakshatra", nakshatra)
    /\ ppc = "timings" => EndTimeClaimed("yoga", yoga)

\* An evaluation that is over, with one end time found and one not.
C4_Witness ==
    /\ ppc = "done"
    /\ tithi.end = None /\ tithi.queries = 120
    /\ yoga.end # None /\ yoga.queries > 1

\* Some step of the evaluation can be taken: the guards of its actions.
PanchangStepPossible ==
    \/ ppc \in {"init", "tithi_end", "nakshatra_end", "yoga_end", "timings"}
    \/ ppc = "bengali_date" /\ pc = "idle"
    \/ ppc = "bengali_wait" /\ (pc = "Done" \/ CivilStepPossible)

\* A measure of the work left in an evaluation.
PanchangRank ==
    LET civil == 2 * NIter + 5
    IN  CASE ppc = "done"          -> 0
          [] ppc = "bengali_wait"  -> 1 + CivilRank
          [] ppc = "bengali_date"  -> civil
          [] ppc = "timings"       -> civil + 1
          [] ppc = "yoga_end"      -> civil + 2 + (SearchSteps - search.k)
          [] ppc = "nakshatra_end" -> civil + 3 + SearchSteps + (SearchSteps - search.k)
          [] ppc = "tithi_end"     -> civil + 4 + 2 * SearchSteps + (SearchSteps - search.k)
          [] ppc = "init"          -> civil + 5 + 3 * SearchSteps

\* C6: when the sunrise or the sunset returned is None, self.timings is empty
\* (no entry at all, so no zero-length interval), and the evaluation still
\* runs to its end: a step is possible until then, every step lowers the
\* measure, and at the end the elements and the solar date are there.
C6_TimingsUnavailable ==
    /\ []((ppc \in {"bengali_date", "bengali_wait", "done"}
              /\ (sunrise = None \/ sunset = None)) => DOMAIN timings = {})
    /\ [](ppc # "done" => PanchangStepPossible)
    /\ [][PanchangNext => (PanchangRank' < PanchangRank /\ PanchangRank' >= 0)]_vars
    /\ [](ppc = "done" =>
              /\ bengali # None
              /\ tithi.queries >= 1 /\ nakshatra.queries >= 1 /\ yoga.queries >= 1
              /\ karana.name # "")

C6_Witness ==
    /\ ppc = "done"
    /\ sunrise # None
    /\ sunset = None
    /\ DOMAIN timings = {}
    /\ bengali # None
    /\ bengali[1].day >= 1

-----------------------------------------------------------------------------
(* Two evaluations of Ephemeris.get_sunrise_sunset, interleaved *)

Evaluations == {1, 2}

\* (lat, lon) in 1/10000 degree: Kolkata and Delhi.
Locations == { [lat |-> 225726, lon |-> 883639], [lat |-> 286139, lon |-> 772090] }

\* core.py 83: for _ in range(10)
FindEventIterations == 10

ParallelInit ==
    /\ eph = None
    /\ CivilIdle
    /\ PanchangIdle
    /\ SweepIdle
    /\ topo = None
    /\ observer \in [Evaluations -> Locations]
    /\ tpc = [i \in Evaluations |-> "rise_set_topo"]
    /\ calls = [i \in Evaluations |-> 0]
    /\ seen = [i \in Evaluations |-> {}]

\* core.py 53: swe.set_topo(lon, lat, 0) in get_sun_alt.
SetTopo(i) ==
    /\ tpc[i] \in {"rise_set_topo", "set_set_topo"}
    /\ topo' = Some(observer[i])
    /\ tpc' = [tpc EXCEPT ![i] = IF tpc[i] = "rise_set_topo" THEN "rise_calc_ut"
                                                             ELSE "set_calc_ut"]
    /\ UNCHANGED <<eph, civilVars, panchangVars, sweepVars, observer, calls, seen>>

\* core.py 54-55, 84-92: swe.calc_ut under the position stored, and another
\* iteration of find_event.
CalcUtIterate(i) ==
    /\ tpc[i] \in {"rise_calc_ut", "set_calc_ut"}
    /\ calls[i] + 1 < FindEventIterations
    /\ seen' = [seen EXCEPT ![i] = seen[i] \cup {topo}]
    /\ calls' = [calls EXCEPT ![i] = calls[i] + 1]
    /\ tpc' = [tpc EXCEPT ![i] = IF tpc[i] = "rise_calc_ut" THEN "rise_set_topo"
                                                            ELSE "set_set_topo"]
    /\ UNCHANGED <<eph, civilVars, panchangVars, sweepVars, topo, observer>>

\* core.py 54-55, 84-93, 104-120: swe.calc_ut under the position stored, and
\* find_event returns (the altitude is near enough, or it was the tenth
\* iteration): on to the sunset, or the evaluation returns.
CalcUtReturn(i) ==
    /\ tpc[i] \in {"rise_calc_ut", "set_calc_ut"}
    /\ seen' = [seen EXCEPT ![i] = seen[i] \cup {topo}]
    /\ calls' = [calls EXCEPT ![i] = 0]
    /\ tpc' = [tpc EXCEPT ![i] = IF tpc[i] = "rise_calc_ut" THEN "set_set_topo"
                                                            ELSE "done"]
    /\ UNCHANGED <<eph, civilVars, panchangVars, sweepVars, topo, observer>>

ParallelNext ==
    \E i \in Evaluations :
        \/ SetTopo(i)
        \/ CalcUtIterate(i)
        \/ CalcUtReturn(i)

SpecParallel == ParallelInit /\ [][ParallelNext]_vars

\* C9: in every interleaving of two evaluations, each evaluation's sunrise and
\* sunset are computed under its own observer position alone, as they are when
\* it runs by itself.
C9_OwnObserverOnly ==
    \A i \in Evaluations :
        tpc[i] = "done" => seen[i] = {Some(observer[i])}

====
